---- MODULE Spec2Model ----
(***************************************************************************)
(* Model of get_yang.py: a NETCONF-over-SSH client that reads the device   *)
(* hello, answers it, asks for the schema list and fetches every YANG      *)
(* schema, one host after the other.                                       *)
(*                                                                         *)
(* Text is a sequence of tokens.  The characters that matter to the        *)
(* framing ("]", ">", newline, blank) are tokens of their own; any other   *)
(* run of text (an XML tag, a capability URI, a whole XML element) is one  *)
(* token.                                                                  *)
(***************************************************************************)
EXTENDS Integers, Sequences, FiniteSets, TLC

VARIABLES
    hostIdx,        \* main: position of the for-loop over hosts.split(",")
    pc,             \* main: the statement the script is at
    proc,           \* client.poll(): "none" (no process), "running", "exit0", "exit1"
    owed,           \* what the device has been asked for and has not sent yet
    wire,           \* device output that has not reached the client's pipe yet
    pipe,           \* device output buffered in the client's stdout pipe
    eof,            \* the device side of the stream is closed
    data,           \* the local buffer `data` of the read in progress
    newline_data,   \* per host: SSHClient.__newline_data
    sent,           \* this session: the messages written to client.stdin, in order
    log,            \* this session: its reads and writes, in order
    states,         \* main: the list returned by parse_netconf_state
    idx,            \* main: position of the for-loop over states
    files,          \* the output directory: a set of [path, content, host]
    connected,      \* the hosts connect() was called for
    devmsgs,        \* this session: the messages the device has sent, in order
    midMarker,      \* this session: a chunk has ended inside an end marker
    doc,            \* parse_netconf_state on its own: the document given
    parsed,         \* parse_netconf_state on its own: what it returned
    ident,          \* get_netconf_schema on its own: <<identifier, version>>
    request,        \* get_netconf_schema on its own: the request it wrote
    yangdata,       \* parse_netconf_schema_yang on its own: the data element's text
    written         \* parse_netconf_schema_yang on its own: the contents it wrote

vars == <<hostIdx, pc, proc, owed, wire, pipe, eof, data, newline_data, sent,
          log, states, idx, files, connected, devmsgs, midMarker, doc, parsed,
          ident, request, yangdata, written>>

\* the arguments and results of the functions that are also run on their own
calls == <<ident, request, yangdata, written>>

-----------------------------------------------------------------------------
(* Bounds of the model. *)

\* longest document handed to parse_netconf_state on its own
MaxDoc == 4

\* longest identifier and longest version handed to get_netconf_schema on
\* its own, in tokens
MaxIdent == 2

\* longest data text handed to parse_netconf_schema_yang on its own, in tokens
MaxText == 5

\* how often parse_netconf_schema_yang is run on the same text
MaxExtract == 2

-----------------------------------------------------------------------------
(* Text *)

Marker == <<"]", "]", ">", "]", "]", ">">>

Whitespace == {"\n", " "}

\* Python: pat in s
Contains(s, pat) ==
    \E i \in 1..(Len(s) - Len(pat) + 1) : SubSeq(s, i, i + Len(pat) - 1) = pat

\* Python: s.replace(pat, rep) -- leftmost, non-overlapping occurrences
RECURSIVE Replace(_, _, _)
Replace(s, pat, rep) ==
    IF Len(s) < Len(pat) THEN s
    ELSE IF SubSeq(s, 1, Len(pat)) = pat
         THEN rep \o Replace(SubSeq(s, Len(pat) + 1, Len(s)), pat, rep)
         ELSE <<Head(s)>> \o Replace(Tail(s), pat, rep)

\* Python: s.strip()
RECURSIVE LStrip(_)
LStrip(s) == IF s # <<>> /\ Head(s) \in Whitespace THEN LStrip(Tail(s)) ELSE s

RECURSIVE RStrip(_)
RStrip(s) ==
    IF s # <<>> /\ s[Len(s)] \in Whitespace THEN RStrip(SubSeq(s, 1, Len(s) - 1)) ELSE s

\* every whitespace character removed, not only those at the two ends
StripAll(s) == SelectSeq(s, LAMBDA c : c \notin Whitespace)

Strip(s) == LStrip(RStrip(s))

-----------------------------------------------------------------------------
(* The three messages of SSHClient.__init__ *)

netconf_hello ==
    <<"\n", "<?xml?>", "\n", "<nc:hello>", "\n", "<nc:capabilities>", "\n",
      "<nc:capability>base:1.0</nc:capability>", "\n",
      "<nc:capability>ietf-netconf-monitoring</nc:capability>", "\n",
      "</nc:capabilities>", "\n", "</nc:hello>">>

netconf_state ==
    <<"\n", "<rpc message-id=0>", "\n", "<get>", "\n", "<filter>", "\n",
      "<netconf-state>", "\n", "<schemas/>", "\n", "</netconf-state>", "\n",
      "</filter>", "\n", "</get>", "\n", "</rpc>", "\n">> \o Marker

netconf_get_schema ==
    <<"\n", "<rpc message-id=104>", "\n", "<get-schema>", "\n",
      "<identifier>", "{{IDENTIFIER}}", "</identifier>", "\n",
      "<version>", "{{VERSION}}", "</version>", "\n",
      "<format>", "yang", "</format>", "\n",
      "</get-schema>", "\n", "</rpc>", "\n">> \o Marker

\* get_netconf_schema: the command built from the template
SchemaCommand(identifier, version) ==
    Replace(Replace(netconf_get_schema, <<"{{IDENTIFIER}}">>, identifier),
            <<"{{VERSION}}">>, version)

-----------------------------------------------------------------------------
(* XML as ElementTree sees it *)

MonNS == "urn:ietf:params:xml:ns:yang:ietf-netconf-monitoring"
BaseNS == "urn:ietf:params:xml:ns:netconf:base:1.0"

\* Python None, where a text is expected
None == <<"None">>

Child(ns, tag, text) == [ns |-> ns, tag |-> tag, text |-> text]
Element(ns, tag, text, kids) == [ns |-> ns, tag |-> tag, text |-> text, kids |-> kids]

SchemaElem(id, ver, fmt) ==
    Element(MonNS, "schema", None,
            <<Child(MonNS, "identifier", id), Child(MonNS, "version", ver),
              Child(MonNS, "format", fmt)>>)

\* Element.find("{ns}tag"): the position of the first direct child of that
\* qualified name, 0 if there is none
Find(kids, ns, tag) ==
    LET hits == {i \in 1..Len(kids) : kids[i].ns = ns /\ kids[i].tag = tag}
    IN  IF hits = {} THEN 0 ELSE CHOOSE i \in hits : \A j \in hits : i <= j

\* the tokens that stand for one whole XML element, and the element each is
RootOpen == "<rpc-reply>"
RootClose == "</rpc-reply>"

ElemTokens ==
    {"<schema a@1 yang/>", "<schema b@2 xml/>", "<schema ../r1/a@1 yang/>",
     "<data> m m </data>", "<ok/>"}

ElemOf(tok) ==
    CASE tok = "<schema a@1 yang/>" -> SchemaElem(<<"a">>, <<"1">>, <<"yang">>)
      [] tok = "<schema b@2 xml/>"  -> SchemaElem(<<"b">>, <<"2">>, <<"xml">>)
      [] tok = "<schema ../r1/a@1 yang/>" ->
            SchemaElem(<<"..", "/", "r1", "/", "a">>, <<"1">>, <<"yang">>)
      [] tok = "<data> m m </data>" ->
            Element(MonNS, "data", <<"\n", "m", " ", "m", "\n">>, <<>>)
      [] OTHER -> Element(BaseNS, "ok", None, <<>>)

CharData == {"]", ">", "x"}

\* ET.fromstring(data): err for what expat rejects; otherwise the elements
\* below the root, in document order
FromString(text) ==
    LET core == Strip(text)
        n == Len(core)
        wellFormed ==
            /\ n >= 2
            /\ core[1] = RootOpen
            /\ core[n] = RootClose
            /\ \A i \in 2..(n - 1) : core[i] \in ElemTokens \cup Whitespace \cup CharData
            /\ ~Contains(core, <<"]", "]", ">">>)
        toks == SelectSeq(core, LAMBDA t : t \in ElemTokens)
    IN  IF wellFormed
        THEN [err |-> FALSE, elems |-> [i \in 1..Len(toks) |-> ElemOf(toks[i])]]
        ELSE [err |-> TRUE, elems |-> <<>>]

\* the loop with schemas.insert(0, ...) in place of schemas.append(...)
RECURSIVE ParseLoopPrepend(_, _, _)
ParseLoopPrepend(elems, i, schemas) ==
    IF i > Len(elems) THEN [err |-> FALSE, schemas |-> schemas]
    ELSE LET e == elems[i]
             id == Find(e.kids, MonNS, "identifier")
             ver == Find(e.kids, MonNS, "version")
             fmt == Find(e.kids, MonNS, "format")
         IN  IF ~(e.ns = MonNS /\ e.tag = "schema")
             THEN ParseLoopPrepend(elems, i + 1, schemas)
             ELSE IF id = 0 \/ ver = 0 \/ fmt = 0
                  THEN [err |-> TRUE, schemas |-> <<>>]
             ELSE IF e.kids[fmt].text # <<"yang">>
                  THEN ParseLoopPrepend(elems, i + 1, schemas)
             ELSE ParseLoopPrepend(elems, i + 1,
                      <<(<<e.kids[id].text, e.kids[ver].text>>)>> \o schemas)

\* parse_netconf_state, from the parsed root on: the loop over root.iter(schema)
RECURSIVE ParseLoop(_, _, _)
ParseLoop(elems, i, schemas) ==
    IF i > Len(elems) THEN [err |-> FALSE, schemas |-> schemas]
    ELSE LET e == elems[i]
             id == Find(e.kids, MonNS, "identifier")
             ver == Find(e.kids, MonNS, "version")
             fmt == Find(e.kids, MonNS, "format")
         IN  IF ~(e.ns = MonNS /\ e.tag = "schema") THEN ParseLoop(elems, i + 1, schemas)
             ELSE IF id = 0 \/ ver = 0 \/ fmt = 0
                  THEN [err |-> TRUE, schemas |-> <<>>]   \* None.text: AttributeError
             ELSE IF e.kids[fmt].text # <<"yang">> THEN ParseLoop(elems, i + 1, schemas)
             ELSE ParseLoop(elems, i + 1,
                            Append(schemas, <<e.kids[id].text, e.kids[ver].text>>))

ParseNetconfState(elems) == ParseLoop(elems, 1, <<>>)

\* the same with a missing data element read as an empty text
SchemaDataLenient(elems) ==
    LET d == Find(elems, MonNS, "data")
    IN  IF d = 0 THEN [err |-> FALSE, text |-> <<>>]
        ELSE IF elems[d].text = None THEN [err |-> FALSE, text |-> <<>>]
        ELSE [err |-> FALSE, text |-> elems[d].text]

\* parse_netconf_schema_yang up to the text to write: root.find(data).text
SchemaData(elems) ==
    LET d == Find(elems, MonNS, "data")
    IN  IF d = 0 THEN [err |-> TRUE, text |-> <<>>]               \* None.text
        ELSE IF elems[d].text = None THEN [err |-> TRUE, text |-> <<>>]  \* len(None)
        ELSE [err |-> FALSE, text |-> elems[d].text]

\* the path parse_netconf_schema_yang opens, below output_path
OutputPath(host, identifier, version) ==
    <<host, "/">> \o identifier \o <<"@">> \o version \o <<".yang">>

\* a path as the OS reads it: its components, split at "/"
RECURSIVE Components(_)
Components(path) ==
    IF path = <<>> THEN << <<>> >>
    ELSE IF Head(path) = "/" THEN << <<>> >> \o Components(Tail(path))
    ELSE LET rest == Components(Tail(path))
         IN  << <<Head(path)>> \o Head(rest) >> \o Tail(rest)

\* open(path, "w"), path taken below output_path: the OS walks the
\* directories of the path from cur, ".." leads to the parent, a directory
\* that is not in dirs is an error (FileNotFoundError); the result is the
\* place of the file below output_path
RECURSIVE Resolve(_, _, _)
Resolve(comps, cur, dirs) ==
    IF Len(comps) = 1 THEN [err |-> FALSE, path |-> Append(cur, comps[1])]
    ELSE IF Head(comps) = <<"..">>
         THEN IF cur = <<>> \/ cur[Len(cur)] = <<"..">>
              THEN Resolve(Tail(comps), Append(cur, <<"..">>), dirs)
              ELSE Resolve(Tail(comps), SubSeq(cur, 1, Len(cur) - 1), dirs)
         ELSE IF Append(cur, Head(comps)) \in dirs
              THEN Resolve(Tail(comps), Append(cur, Head(comps)), dirs)
              ELSE [err |-> TRUE, path |-> <<>>]

-----------------------------------------------------------------------------
(* main's input and what a device may send *)

\* sys.argv[1].split(",")
HostList == <<"r1", "r2">>

HostIdxs == 1..Len(HostList)

Capability == "ietf-netconf-monitoring"

\* after the end marker: nothing, or the line terminator of a device that
\* writes line by line
Tails == {<<>>, <<"\n">>}

\* a message as the device may put it on the stream: with the end marker, or
\* cut off before it
Framed(bodies) ==
    {b \o Marker \o t : b \in bodies, t \in Tails} \cup bodies

HelloBodies ==
    {<<Capability>>, <<Capability, "\n", "</hello>">>, <<"base:1.0">>}

StateBodies ==
    {<<RootOpen, RootClose>>,
     <<RootOpen, "<schema a@1 yang/>", RootClose>>,
     <<RootOpen, "<schema b@2 xml/>", "\n", "<schema a@1 yang/>", RootClose>>,
     <<RootOpen, "<schema a@1 yang/>", "]", RootClose>>,
     <<RootOpen, "<schema ../r1/a@1 yang/>", RootClose>>}

\* state replies of a device that is not well-behaved: text after the end
\* marker on the marker's line, and the characters of a marker on both sides
\* of the marker
OddStates ==
    {<<RootOpen, RootClose>> \o Marker \o <<"x", "\n">>,
     <<"]", "]", ">", "]", "]">> \o Marker \o <<">", "\n">>}

SchemaBodies ==
    {<<RootOpen, "<data> m m </data>", RootClose>>,
     <<RootOpen, "<ok/>", RootClose>>}

Menu(what) ==
    CASE what = "hello"  -> Framed(HelloBodies)
      [] what = "state"  -> Framed(StateBodies) \cup OddStates
      [] what = "schema" -> Framed(SchemaBodies)
      [] OTHER -> {}

NoParse == [called |-> FALSE, err |-> FALSE, schemas |-> <<>>]

SessionInit ==
    /\ hostIdx = 1
    /\ pc = "start"
    /\ proc = "none"
    /\ owed = "none"
    /\ wire = <<>>
    /\ pipe = <<>>
    /\ eof = FALSE
    /\ data = <<>>
    /\ newline_data = [h \in HostIdxs |-> "unset"]
    /\ sent = <<>>
    /\ log = <<>>
    /\ connected = {}
    /\ devmsgs = <<>>
    /\ midMarker = FALSE
    /\ states = <<>>
    /\ idx = 0
    /\ files = {}

\* none of the functions run on their own has been given anything
NoCalls ==
    /\ ident = <<>>
    /\ request = <<>>
    /\ yangdata = <<>>
    /\ written = <<>>

Init ==
    /\ SessionInit
    /\ doc = <<>>
    /\ parsed = NoParse
    /\ NoCalls

-----------------------------------------------------------------------------
(* The transport: the ssh process and the device behind it *)

\* the device answers what it was asked, whole or cut off
DeviceSend ==
    /\ proc = "running"
    /\ ~eof
    /\ \E m \in Menu(owed) : wire' = wire \o m /\ devmsgs' = Append(devmsgs, m)
    /\ owed' = "none"
    /\ UNCHANGED <<hostIdx, pc, proc, pipe, eof, data, newline_data, sent, log,
                   states, idx, files, connected, midMarker, doc, parsed, calls>>

\* position c of stream s lies inside an end marker: the marker starts at or
\* before c and ends after it
InsideMarker(s, c) ==
    \E i \in 1..(Len(s) - Len(Marker) + 1) :
        /\ SubSeq(s, i, i + Len(Marker) - 1) = Marker
        /\ i <= c
        /\ c < i + Len(Marker) - 1

\* a chunk of the device's output reaches the pipe the client reads from
Deliver ==
    /\ \E n \in 1..Len(wire) :
          /\ pipe' = pipe \o SubSeq(wire, 1, n)
          /\ wire' = SubSeq(wire, n + 1, Len(wire))
          /\ midMarker' = (midMarker \/ InsideMarker(data \o pipe \o wire,
                                                      Len(data) + Len(pipe) + n))
    /\ UNCHANGED <<hostIdx, pc, proc, owed, eof, data, newline_data, sent, log,
                   states, idx, files, connected, devmsgs, doc, parsed, calls>>

\* the device closes the stream while ssh is still running
DeviceClose ==
    /\ proc = "running"
    /\ ~eof
    /\ eof' = TRUE
    /\ UNCHANGED <<hostIdx, pc, proc, owed, wire, pipe, data, newline_data, sent,
                   log, states, idx, files, connected, devmsgs, midMarker, doc, parsed, calls>>

\* the ssh process ends, with exit status 0 or not; what had not reached the
\* pipe is lost
ProcExit ==
    /\ proc = "running"
    /\ proc' \in {"exit0", "exit1"}
    /\ eof' = TRUE
    /\ wire' = <<>>
    /\ UNCHANGED <<hostIdx, pc, owed, pipe, data, newline_data, sent, log,
                   states, idx, files, connected, devmsgs, midMarker, doc, parsed, calls>>

\* stdout.read(1) and the line iterator see the end of the stream
AtEOF == eof /\ wire = <<>> /\ pipe = <<>>

-----------------------------------------------------------------------------
(* SSHClient *)

Range(s) == {s[i] : i \in 1..Len(s)}

\* a search for the first half of the marker only
MarkerSeenShort(buf) == Contains(buf, <<"]", "]", ">">>)

\* "]]>]]>" in data
MarkerSeen(buf) == Contains(buf, Marker)

\* data.replace("]]>]]>", "")
Deframe(buf) == Replace(buf, Marker, <<>>)

\* a check that only asks for a hello that is not empty
HasMonitoringLoose(text) == text # <<>>

\* "ietf-netconf-monitoring" in data
HasMonitoring(text) == Contains(text, <<Capability>>)

\* a test for a newline at the end of the hello only
SelectModeLast(text) ==
    IF text # <<>> /\ text[Len(text)] = "\n" THEN "line" ELSE "byte"

\* read_hello: if "\n" in data: __newline_data = True, else False
SelectMode(text) == IF "\n" \in Range(text) THEN "line" ELSE "byte"

\* a write to client.stdin reaches the pipe unless ssh has ended (EPIPE)
WriteOk == proc = "running"

Event(ev, ok, text) == [ev |-> ev, ok |-> ok, text |-> text]

\* connect(): Popen gives a running process
Connect ==
    /\ pc = "start"
    /\ connected' = connected \cup {hostIdx}
    /\ pc' = "hello"
    /\ proc' = "running"
    /\ owed' = "hello"
    /\ wire' = <<>> /\ pipe' = <<>> /\ eof' = FALSE /\ data' = <<>>
    /\ sent' = <<>> /\ log' = <<>> /\ devmsgs' = <<>> /\ midMarker' = FALSE
    /\ states' = <<>> /\ idx' = 0
    /\ UNCHANGED <<hostIdx, newline_data, files, doc, parsed, calls>>

\* connect(): Popen raises, or the process is gone at the first poll():
\* sys.exit(1)
ConnectFail ==
    /\ pc = "start"
    /\ connected' = connected \cup {hostIdx}
    /\ pc' = "exit"
    /\ proc' = "exit1"
    /\ owed' = "none"
    /\ wire' = <<>> /\ pipe' = <<>> /\ eof' = TRUE /\ data' = <<>>
    /\ sent' = <<>> /\ log' = <<>> /\ devmsgs' = <<>> /\ midMarker' = FALSE
    /\ states' = <<>> /\ idx' = 0
    /\ UNCHANGED <<hostIdx, newline_data, files, doc, parsed, calls>>

\* read_hello after its loop: strip the marker, check the capability, pick
\* the framing mode
HelloReturn(buf, ok) ==
    LET text == Deframe(buf)
    IN  /\ data' = <<>>
        /\ IF ~HasMonitoring(text)
           THEN /\ pc' = "exit"                               \* sys.exit(1)
                /\ log' = Append(log, Event("rd_hello_exit", ok, text))
                /\ UNCHANGED newline_data
           ELSE /\ pc' = "send_hello"
                /\ log' = Append(log, Event("rd_hello", ok, text))
                /\ newline_data' = [newline_data EXCEPT ![hostIdx] = SelectMode(text)]

\* read_hello, one turn of `while not self.client.poll()` that gets a
\* character.  At the end of the stream read(1) gives "" and the turn changes
\* nothing: the loop spins for as long as poll() is None or 0.
ReadHelloChar ==
    /\ pc = "hello"
    /\ proc # "exit1"
    /\ pipe # <<>>
    /\ pipe' = Tail(pipe)
    /\ LET buf == Append(data, Head(pipe))
       IN  IF MarkerSeen(buf)
           THEN HelloReturn(buf, TRUE)
           ELSE data' = buf /\ UNCHANGED <<pc, log, newline_data>>
    /\ UNCHANGED <<hostIdx, proc, owed, wire, eof, sent, states, idx, files,
                   connected, devmsgs, midMarker, doc, parsed, calls>>

\* read_hello: poll() gives a non-zero exit status, the loop ends without
\* the marker
ReadHelloClosed ==
    /\ pc = "hello"
    /\ proc = "exit1"
    /\ HelloReturn(data, FALSE)
    /\ UNCHANGED <<hostIdx, proc, owed, wire, pipe, eof, sent, states, idx, files,
                   connected, devmsgs, midMarker, doc, parsed, calls>>

\* write_command(command) as main calls it, then the statement `next`
WriteCommand(command, ev, asks, next) ==
    /\ IF WriteOk
       THEN /\ sent' = Append(sent, command \o <<"\n">>)
            /\ log' = Append(log, Event(ev, TRUE, <<>>))
            /\ owed' = IF asks = "none" THEN owed ELSE asks
            /\ pc' = next
       ELSE /\ pc' = "exit"                                   \* BrokenPipeError
            /\ UNCHANGED <<sent, log, owed>>
    /\ UNCHANGED <<hostIdx, proc, wire, pipe, eof, data, newline_data, states, idx,
                   files, connected, devmsgs, midMarker, doc, parsed, calls>>

\* main: client.write_command(client.netconf_hello)
SendHello ==
    /\ pc = "send_hello"
    /\ WriteCommand(netconf_hello, "wr_hello", "none", "send_state")

\* the state request written without waiting for the hello to be answered
SendStateFirst ==
    /\ pc \in {"send_hello", "send_state"}
    /\ WriteCommand(netconf_state, "wr_state", "state", "read_state")

\* main: client.write_command(client.netconf_state)
SendState ==
    /\ pc = "send_state"
    /\ WriteCommand(netconf_state, "wr_state", "state", "read_state")

Reading == {"read_state", "read_schema"}

\* f.write(data.strip()) on open(output_path, "w")
WriteFile(fs, path, content, host) ==
    {f \in fs : f.path # path} \cup {[path |-> path, content |-> content, host |-> host]}

\* os.makedirs(output_path + "/" + host): the directories below output_path
Dirs == {<<>>} \cup {<< <<HostList[h]>> >> : h \in connected}

\* read_command_output after its loop, and what main does with the message:
\* parse_netconf_state after the state request, parse_netconf_schema_yang
\* after a get-schema request.  An exception ends the script.
ReadReturn(buf, ok) ==
    LET text == Deframe(buf)
        root == FromString(text)
        list == ParseNetconfState(root.elems)
        yang == SchemaData(root.elems)
        state == states[idx]
        target == Resolve(Components(OutputPath(HostList[hostIdx], state[1], state[2])),
                          <<>>, Dirs)
    IN  /\ data' = <<>>
        /\ log' = Append(log, Event("rd", ok, text))
        /\ IF pc = "read_state"
           THEN IF root.err \/ list.err
                THEN pc' = "exit" /\ UNCHANGED <<states, idx, files>>
                ELSE /\ states' = list.schemas
                     /\ idx' = 1
                     /\ pc' = "fetch"
                     /\ UNCHANGED files
           ELSE IF root.err \/ yang.err \/ target.err
                THEN pc' = "exit" /\ UNCHANGED <<states, idx, files>>
                ELSE /\ files' = WriteFile(files, target.path, Strip(yang.text),
                                           HostList[hostIdx])
                     /\ idx' = idx + 1
                     /\ pc' = "fetch"
                     /\ UNCHANGED states

\* read_command_output, byte-wise: one turn of the while loop that gets a
\* character; the whole buffer is searched for the marker
ReadByte ==
    /\ pc \in Reading
    /\ newline_data[hostIdx] = "byte"
    /\ proc # "exit1"
    /\ pipe # <<>>
    /\ pipe' = Tail(pipe)
    /\ LET buf == Append(data, Head(pipe))
       IN  IF MarkerSeen(buf)
           THEN ReadReturn(buf, TRUE)
           ELSE data' = buf /\ UNCHANGED <<pc, log, states, idx, files>>
    /\ UNCHANGED <<hostIdx, proc, owed, wire, eof, newline_data, sent, connected,
                   devmsgs, midMarker, doc, parsed, calls>>

\* read_command_output, byte-wise: poll() gives a non-zero exit status
ReadByteClosed ==
    /\ pc \in Reading
    /\ newline_data[hostIdx] = "byte"
    /\ proc = "exit1"
    /\ ReadReturn(data, FALSE)
    /\ UNCHANGED <<hostIdx, proc, owed, wire, pipe, eof, newline_data, sent,
                   connected, devmsgs, midMarker, doc, parsed, calls>>

\* the line the iterator over client.stdout gives next: up to and with the
\* first newline, or what is left when the stream has ended
HasLine == "\n" \in Range(pipe) \/ (eof /\ wire = <<>> /\ pipe # <<>>)

NextLine ==
    IF "\n" \in Range(pipe)
    THEN SubSeq(pipe, 1, CHOOSE i \in 1..Len(pipe) :
                            pipe[i] = "\n" /\ \A j \in 1..(i - 1) : pipe[j] # "\n")
    ELSE pipe

\* read_command_output, line-wise: one turn of `for line in stdout`; only
\* the new line is searched for the marker
ReadLine ==
    /\ pc \in Reading
    /\ newline_data[hostIdx] = "line"
    /\ HasLine
    /\ pipe' = SubSeq(pipe, Len(NextLine) + 1, Len(pipe))
    /\ LET buf == data \o NextLine
       IN  IF MarkerSeen(NextLine)
           THEN ReadReturn(buf, TRUE)
           ELSE data' = buf /\ UNCHANGED <<pc, log, states, idx, files>>
    /\ UNCHANGED <<hostIdx, proc, owed, wire, eof, newline_data, sent, connected,
                   devmsgs, midMarker, doc, parsed, calls>>

\* read_command_output, line-wise: the iterator is exhausted
ReadLineEOF ==
    /\ pc \in Reading
    /\ newline_data[hostIdx] = "line"
    /\ AtEOF
    /\ ReadReturn(data, FALSE)
    /\ UNCHANGED <<hostIdx, proc, owed, wire, pipe, eof, newline_data, sent,
                   connected, devmsgs, midMarker, doc, parsed, calls>>

\* main: `for state in states`: get_netconf_schema builds and writes the
\* request; str.replace raises TypeError on None
Fetch ==
    /\ pc = "fetch"
    /\ idx <= Len(states)
    /\ LET identifier == states[idx][1]
           version == states[idx][2]
       IN  IF identifier = None \/ version = None
           THEN /\ pc' = "exit"
                /\ UNCHANGED <<hostIdx, proc, owed, wire, pipe, eof, data,
                               newline_data, sent, log, states, idx, files,
                               connected, devmsgs, midMarker, doc, parsed, calls>>
           ELSE WriteCommand(SchemaCommand(identifier, version), "wr_schema",
                             "schema", "read_schema")

\* main: the loop over states is over; on to the next host, or to
\* compare_checksums and the end
NextHost ==
    /\ pc = "fetch"
    /\ idx > Len(states)
    /\ hostIdx' = hostIdx + 1
    /\ pc' = IF hostIdx < Len(HostList) THEN "start" ELSE "done"
    /\ proc' = "none"
    /\ UNCHANGED <<owed, wire, pipe, eof, data, newline_data, sent, log, states,
                   idx, files, connected, devmsgs, midMarker, doc, parsed, calls>>

Next ==
    \/ Connect \/ ConnectFail
    \/ DeviceSend \/ Deliver \/ DeviceClose \/ ProcExit
    \/ ReadHelloChar \/ ReadHelloClosed
    \/ SendHello \/ SendState
    \/ ReadByte \/ ReadByteClosed \/ ReadLine \/ ReadLineEOF
    \/ Fetch \/ NextHost

Spec == Init /\ [][Next]_vars

\* the steps of the script itself
ClientStep ==
    \/ Connect \/ ConnectFail
    \/ ReadHelloChar \/ ReadHelloClosed
    \/ SendHello \/ SendState
    \/ ReadByte \/ ReadByteClosed \/ ReadLine \/ ReadLineEOF
    \/ Fetch \/ NextHost

\* the script keeps running while it has a statement to execute, the device
\* answers what it was asked, and what the device has sent reaches the pipe;
\* nothing obliges the device or ssh to close the stream
FairSpec ==
    /\ Init /\ [][Next]_vars
    /\ WF_vars(ClientStep)
    /\ WF_vars(DeviceSend)
    /\ WF_vars(Deliver)

-----------------------------------------------------------------------------
(* parse_netconf_state on its own, over every document of a bounded size *)

\* the elements root.iter may come across
ElemMenu ==
    {SchemaElem(<<"a">>, <<"1">>, <<"yang">>),
     SchemaElem(<<"c">>, <<"3">>, <<"yang">>),
     SchemaElem(<<"b">>, <<"2">>, <<"xml">>),
     SchemaElem(<<"d">>, <<"4">>, <<"YANG">>),
     SchemaElem(None, <<"5">>, <<"yang">>),
     Element(BaseNS, "schema", None,
             <<Child(BaseNS, "identifier", <<"e">>), Child(BaseNS, "version", <<"6">>),
               Child(BaseNS, "format", <<"yang">>)>>),
     Element(MonNS, "schema", None,
             <<Child(MonNS, "identifier", <<"f">>), Child(MonNS, "identifier", <<"g">>),
               Child(MonNS, "version", <<"7">>), Child(MonNS, "format", <<"yang">>)>>),
     Element(MonNS, "schema", None,
             <<Child(MonNS, "identifier", <<"h">>), Child(MonNS, "version", <<"8">>)>>),
     Element(MonNS, "schema", None,
             <<Child(MonNS, "version", <<"9">>), Child(MonNS, "format", <<"yang">>)>>),
     Element(MonNS, "data", <<"m">>, <<>>)}

Docs == UNION {[1..n -> ElemMenu] : n \in 0..MaxDoc}

ParseInit ==
    /\ SessionInit
    /\ doc \in Docs
    /\ parsed = NoParse
    /\ NoCalls

\* states = client.parse_netconf_state(data), from the parsed root on
ParseState ==
    /\ ~parsed.called
    /\ LET r == ParseNetconfState(doc)
       IN  parsed' = [called |-> TRUE, err |-> r.err, schemas |-> r.schemas]
    /\ UNCHANGED <<hostIdx, pc, proc, owed, wire, pipe, eof, data, newline_data,
                   sent, log, states, idx, files, connected, devmsgs, midMarker,
                   doc, calls>>

ParseNext == ParseState

ParseSpec == ParseInit /\ [][ParseNext]_vars

-----------------------------------------------------------------------------
(* get_netconf_schema on its own: every identifier and version *)

\* what an identifier or a version may be made of: plain text, the
\* characters XML reserves, and the two placeholders of the template
IdentTokens == {"a", "<", "&", "{{IDENTIFIER}}", "{{VERSION}}"}
VersionTokens == {"1", "<", "{{IDENTIFIER}}", "{{VERSION}}"}

Idents == UNION {[1..n -> IdentTokens] : n \in 1..MaxIdent}
Versions == UNION {[1..n -> VersionTokens] : n \in 1..MaxIdent}

CommandInit ==
    /\ SessionInit
    /\ doc = <<>>
    /\ parsed = NoParse
    /\ ident \in Idents \X Versions
    /\ request = <<>>
    /\ yangdata = <<>>
    /\ written = <<>>

\* get_netconf_schema(identifier, version) up to write_command: the text
\* that goes to client.stdin
GetNetconfSchema ==
    /\ request = <<>>
    /\ request' = SchemaCommand(ident[1], ident[2]) \o <<"\n">>
    /\ UNCHANGED <<hostIdx, pc, proc, owed, wire, pipe, eof, data, newline_data,
                   sent, log, states, idx, files, connected, devmsgs, midMarker,
                   doc, parsed, ident, yangdata, written>>

CommandNext == GetNetconfSchema

CommandSpec == CommandInit /\ [][CommandNext]_vars

-----------------------------------------------------------------------------
(* parse_netconf_schema_yang on its own: every data text *)

TextTokens == {"\n", " ", "m"}

Texts == UNION {[1..n -> TextTokens] : n \in 0..MaxText}

ExtractInit ==
    /\ SessionInit
    /\ doc = <<>>
    /\ parsed = NoParse
    /\ ident = <<>>
    /\ request = <<>>
    /\ yangdata \in Texts
    /\ written = <<>>

\* parse_netconf_schema_yang on a response whose data element holds
\* yangdata: what f.write() is given
ParseNetconfSchemaYang ==
    /\ Len(written) < MaxExtract
    /\ LET yang == SchemaData(<<Element(MonNS, "data", yangdata, <<>>)>>)
       IN  written' = Append(written, Strip(yang.text))
    /\ UNCHANGED <<hostIdx, pc, proc, owed, wire, pipe, eof, data, newline_data,
                   sent, log, states, idx, files, connected, devmsgs, midMarker,
                   doc, parsed, ident, request, yangdata>>

ExtractNext == ParseNetconfSchemaYang

ExtractSpec == ExtractInit /\ [][ExtractNext]_vars

-----------------------------------------------------------------------------
(* What the claims speak of *)

\* the positions of the session's log that hold one of the events E
Evs(E) == {i \in DOMAIN log : log[i].ev \in E}

HelloReads == Evs({"rd_hello", "rd_hello_exit"})
HelloWrites == Evs({"wr_hello"})
Requests == Evs({"wr_state", "wr_schema"})

\* the reads of the session, in order
Reads == SelectSeq(log, LAMBDA e : e.ev \in {"rd_hello", "rd_hello_exit", "rd"})

\* where the first end marker of s starts, 0 if s has none
FirstMarker(s) ==
    LET at == {i \in 1..(Len(s) - Len(Marker) + 1) :
                  SubSeq(s, i, i + Len(Marker) - 1) = Marker}
    IN  IF at = {} THEN 0 ELSE CHOOSE i \in at : \A j \in at : i <= j

\* what s holds before its first end marker
BeforeMarker(s) == IF FirstMarker(s) = 0 THEN s ELSE SubSeq(s, 1, FirstMarker(s) - 1)

\* s is one message that ends with its only end marker
MarkerTerminated(s) == FirstMarker(s) # 0 /\ FirstMarker(s) = Len(s) - Len(Marker) + 1

EndsWith(s, t) == Len(s) >= Len(t) /\ SubSeq(s, Len(s) - Len(t) + 1, Len(s)) = t

\* a session of host hostIdx is under way, or has ended the script
InSession == pc \notin {"start", "done"}

\* the session is still connected to its device
TransportUp == proc = "running" /\ ~eof

\* the files written under the directory of host h
FilesOf(h) == {f \in files : f.path[1] = <<HostList[h]>>}

-----------------------------------------------------------------------------
(* C1 *)

\* C1, as stated: a session that has read a device hello and whose
\* transport is up has, when the script is through with it, read exactly one
\* device hello and written exactly one client hello.
C1_ExactlyOneHelloEach ==
    (pc \in {"exit", "done"} /\ TransportUp /\ HelloReads # {}) =>
        Cardinality(HelloReads) = 1 /\ Cardinality(HelloWrites) = 1

\* C1, amended: in every session at most one device hello is read and at
\* most one client hello is written; the client hello is written only after
\* a device hello that passed the capability check has been read; the state
\* query and every get-schema request are written only after both; and a
\* session that got as far as a request has exactly one of each.
C1_HelloOnceBeforeRequests ==
    /\ Cardinality(HelloReads) <= 1
    /\ Cardinality(HelloWrites) <= 1
    /\ \A w \in HelloWrites : \E r \in HelloReads : r < w /\ log[r].ev = "rd_hello"
    /\ \A q \in Requests : \E w \in HelloWrites : w < q
    /\ pc \in {"read_state", "fetch", "read_schema", "done"} =>
           Cardinality(HelloReads) = 1 /\ Cardinality(HelloWrites) = 1

\* a session that wrote a get-schema request after one hello each way
C1_Witness ==
    /\ \E q \in Requests : log[q].ev = "wr_schema"
    /\ Cardinality(HelloReads) = 1
    /\ Cardinality(HelloWrites) = 1

-----------------------------------------------------------------------------
(* C2 *)

\* C2: every message written to the transport ends with the end marker on a
\* trailing line of its own.
C2_EveryMessageMarkerTerminated ==
    \A i \in DOMAIN sent : EndsWith(sent[i], <<"\n">> \o Marker \o <<"\n">>)

-----------------------------------------------------------------------------
(* C3 *)

\* C3: when the hello the device sent does not hold the monitoring
\* capability, nothing is ever written to the transport, no framing mode is
\* chosen, and once read_hello has read it the script is over.
C3_NoCapabilityNothingWritten ==
    (InSession /\ devmsgs # <<>> /\ Capability \notin Range(devmsgs[1])) =>
        /\ sent = <<>>
        /\ newline_data[hostIdx] = "unset"
        /\ pc \in {"hello", "exit"}
        /\ HelloReads # {} => pc = "exit"

\* a whole hello without the capability has been read, and the script ended
C3_Witness ==
    /\ pc = "exit"
    /\ sent = <<>>
    /\ \E r \in HelloReads : log[r].ok /\ Capability \notin Range(log[r].text)

-----------------------------------------------------------------------------
(* C4 *)

\* C4: between two requests of a session, read_command_output has returned
\* a response that ended with the marker.
C4_NoPipelining ==
    \A i, j \in Requests :
        i < j => \E k \in Evs({"rd"}) : i < k /\ k < j /\ log[k].ok

-----------------------------------------------------------------------------
(* C5 *)

\* C5: when a session ends in the handshake or in the enumeration, with
\* the transport up, its host has no schema file and no host of the list is
\* left unprocessed.
C5_FailureIsolated ==
    (pc = "exit" /\ TransportUp /\ Evs({"wr_schema"}) = {}) =>
        /\ FilesOf(hostIdx) = {}
        /\ hostIdx = Len(HostList)

-----------------------------------------------------------------------------
(* C6 *)

\* the mode is that of read_hello: line-wise exactly if the hello the device
\* sent has a newline before its end marker; no mode without a read hello
ModeMatchesHello ==
    /\ InSession =>
          /\ \A r \in HelloReads :
                (log[r].ev = "rd_hello" /\ log[r].ok) =>
                    newline_data[hostIdx] =
                        IF "\n" \in Range(BeforeMarker(devmsgs[1])) THEN "line" ELSE "byte"
          /\ newline_data[hostIdx] # "unset" => Evs({"rd_hello"}) # {}
    /\ \A h \in HostIdxs : h \notin connected => newline_data[h] = "unset"

\* a mode, once chosen, stays; a mode is chosen by read_hello alone, for the
\* session's own host
ModeStable ==
    /\ \A h \in HostIdxs : newline_data[h] # "unset" => newline_data'[h] = newline_data[h]
    /\ newline_data' # newline_data =>
          /\ pc = "hello"
          /\ \A h \in HostIdxs : h # hostIdx => newline_data'[h] = newline_data[h]

\* C6: the framing mode is chosen once, by read_hello, line-wise exactly if
\* the device hello has a newline before the end marker, and never changes.
C6_ModeChosenOnceAtHello == []ModeMatchesHello /\ [][ModeStable]_vars

\* read_command_output has returned a message in line-wise mode
C6_Witness ==
    /\ InSession
    /\ newline_data[hostIdx] = "line"
    /\ \E k \in Evs({"rd"}) : log[k].ok

-----------------------------------------------------------------------------
(* C7 *)

\* C7: however the stream is cut into chunks, a read that saw the marker of
\* a marker-terminated response returns that response without the marker.
C7_SplitIndependent ==
    \A k \in 1..Len(Reads) :
        (/\ Reads[k].ok
         /\ k <= Len(devmsgs)
         /\ \A j \in 1..k : MarkerTerminated(devmsgs[j])) =>
            Reads[k].text = SubSeq(devmsgs[k], 1, Len(devmsgs[k]) - Len(Marker))

\* a chunk ended inside a marker, and the hello and a response were read
C7_Witness ==
    /\ midMarker
    /\ Len(Reads) >= 2
    /\ Reads[2].ok
    /\ \A j \in 1..2 : MarkerTerminated(devmsgs[j])

-----------------------------------------------------------------------------
(* C8 *)

\* C8: a read that returns to its caller has seen the end marker.
C8_NoPartialMessage ==
    \A i \in Evs({"rd_hello", "rd"}) : log[i].ok

-----------------------------------------------------------------------------
(* C9 *)

ReadStep ==
    \/ ReadHelloChar \/ ReadHelloClosed
    \/ ReadByte \/ ReadByteClosed \/ ReadLine \/ ReadLineEOF

\* C9: a read in flight on a transport that has closed, whatever the exit
\* status of ssh, has a step to take that ends or advances it.
C9_ReadTerminates ==
    (pc \in {"hello"} \cup Reading /\ AtEOF /\ proc \in {"exit0", "exit1"}) =>
        ENABLED ReadStep

-----------------------------------------------------------------------------
(* C10 *)

IsSchema(e) == e.ns = MonNS /\ e.tag = "schema"

Has(e, tag) == \E i \in 1..Len(e.kids) : e.kids[i].ns = MonNS /\ e.kids[i].tag = tag

\* the text of the first monitoring-namespace child `tag` of e
TextOf(e, tag) ==
    LET i == CHOOSE i \in 1..Len(e.kids) :
                 /\ e.kids[i].ns = MonNS /\ e.kids[i].tag = tag
                 /\ \A j \in 1..(i - 1) : ~(e.kids[j].ns = MonNS /\ e.kids[j].tag = tag)
    IN  e.kids[i].text

\* every schema element has its three children
WellFormedList(d) ==
    \A i \in 1..Len(d) :
        IsSchema(d[i]) => Has(d[i], "identifier") /\ Has(d[i], "version") /\ Has(d[i], "format")

YangSchemas(d) == SelectSeq(d, LAMBDA e : IsSchema(e) /\ TextOf(e, "format") = <<"yang">>)

-----------------------------------------------------------------------------
(* C11 *)

\* some schema element of d has no format child
LacksFormat(d) == \E i \in 1..Len(d) : IsSchema(d[i]) /\ ~Has(d[i], "format")

\* the schema elements of d that have a format child
WithFormat(d) == SelectSeq(d, LAMBDA e : ~IsSchema(e) \/ Has(e, "format"))

\* C11: a schema element without a format child is left out, it is no
\* error, and the other schema elements of the response are still returned.
C11_MissingFormatExcluded ==
    (/\ parsed.called
     /\ LacksFormat(doc)
     /\ \A i \in 1..Len(doc) :
           IsSchema(doc[i]) => Has(doc[i], "identifier") /\ Has(doc[i], "version")) =>
        /\ ~parsed.err
        /\ Len(parsed.schemas) = Len(YangSchemas(WithFormat(doc)))
        /\ \A i \in 1..Len(parsed.schemas) :
              parsed.schemas[i] = <<TextOf(YangSchemas(WithFormat(doc))[i], "identifier"),
                                    TextOf(YangSchemas(WithFormat(doc))[i], "version")>>

-----------------------------------------------------------------------------
(* C12 *)

\* C12: parse_netconf_state returns no descriptor whose identifier or
\* version is absent.
C12_NoAbsentDescriptor ==
    parsed.called =>
        \A i \in 1..Len(parsed.schemas) :
            parsed.schemas[i][1] # None /\ parsed.schemas[i][2] # None

-----------------------------------------------------------------------------
(* C13 *)

\* the get-schema RPC around the two values
RpcHead == <<"\n", "<rpc message-id=104>", "\n", "<get-schema>", "\n", "<identifier>">>
RpcMid == <<"</identifier>", "\n", "<version>">>
RpcTail ==
    <<"</version>", "\n", "<format>", "yang", "</format>", "\n",
      "</get-schema>", "\n", "</rpc>", "\n">> \o Marker \o <<"\n">>

\* text that may stand between two tags as it is
XmlReserved == {"<", "&"}
IsCharData(t) == \A i \in 1..Len(t) : t[i] \notin XmlReserved

\* the text an XML reader gets from character data
Unescape(t) ==
    [i \in 1..Len(t) |-> CASE t[i] = "&lt;" -> "<"
                           [] t[i] = "&amp;" -> "&"
                           [] OTHER -> t[i]]

\* C13: the request written for (identifier, version) is a well-formed
\* get-schema RPC whose identifier element carries exactly the identifier,
\* whose version element carries exactly the version and whose format is yang.
C13_RequestCarriesDescriptor ==
    request # <<>> =>
        \E a, b \in 0..Len(request) :
            LET x == SubSeq(request, Len(RpcHead) + 1, Len(RpcHead) + a)
                y == SubSeq(request, Len(RpcHead) + a + Len(RpcMid) + 1,
                            Len(RpcHead) + a + Len(RpcMid) + b)
            IN  /\ Len(request) = Len(RpcHead) + a + Len(RpcMid) + b + Len(RpcTail)
                /\ request = RpcHead \o x \o RpcMid \o y \o RpcTail
                /\ IsCharData(x) /\ Unescape(x) = ident[1]
                /\ IsCharData(y) /\ Unescape(y) = ident[2]

\* the same for values without reserved characters and placeholders
C13_PlainValuesCarried ==
    (/\ request # <<>>
     /\ \A i \in 1..Len(ident[1]) : ident[1][i] = "a"
     /\ \A i \in 1..Len(ident[2]) : ident[2][i] = "1") =>
        request = RpcHead \o ident[1] \o RpcMid \o ident[2] \o RpcTail

-----------------------------------------------------------------------------
(* C14 *)

\* where the OS puts <output_root>/<host>/<identifier>@<version>.yang
SchemaFile(h, state) ==
    Resolve(Components(<<HostList[h], "/">> \o state[1] \o <<"@">> \o state[2]
                       \o <<".yang">>), <<>>, Dirs).path

\* the response has no data element
NoDataElement(text) == "<data> m m </data>" \notin Range(text)

\* a step of main(): a fetch that succeeds changes the file of the descriptor
\* it asked for and no other; no other step changes a file; a response
\* without a data element ends the fetch with the files as they were
FetchStep ==
    /\ IF pc = "read_schema" /\ pc' = "fetch"
       THEN \E f \in files' :
               /\ f.path = SchemaFile(hostIdx, states[idx])
               /\ files' = {g \in files : g.path # f.path} \cup {f}
       ELSE files' = files
    /\ (pc = "read_schema" /\ Len(log') > Len(log) /\ NoDataElement(log'[Len(log')].text)) =>
           pc' = "exit" /\ files' = files

\* C14: each successful schema fetch writes exactly one file, the one at
\* <output_root>/<host>/<identifier>@<version>.yang of the descriptor asked
\* for, and a fetch whose response has no data element fails and leaves
\* every file as it was.
C14_OneFilePerFetch == [][FetchStep]_vars

\* the first host's fetch has written its file, the second host's fetch got
\* a response without a data element and has written none
C14_Witness ==
    /\ hostIdx = 2
    /\ pc = "exit"
    /\ \E f \in files : f.path = << <<"r1">>, <<"a", "@", "1", ".yang">> >>
    /\ \A f \in files : f.host = "r1"
    /\ Evs({"wr_schema"}) # {}
    /\ log[Len(log)].ev = "rd"
    /\ "<ok/>" \in Range(log[Len(log)].text)

-----------------------------------------------------------------------------
(* C16 *)

\* C16: every file written while host h is processed lies in the directory
\* of h, no file belongs to two hosts, and a host's session state is not
\* touched before its own session.
C16_HostsDoNotInterfere ==
    /\ \A f \in files : Len(f.path) = 2 /\ f.path[1] = <<f.host>>
    /\ \A f, g \in files : f.host # g.host => f.path # g.path
    /\ \A h \in HostIdxs : h > hostIdx => newline_data[h] = "unset"

-----------------------------------------------------------------------------
(* C15 *)

AllWhitespace(t) == \A i \in 1..Len(t) : t[i] \in Whitespace

\* w is t without a whitespace prefix and a whitespace suffix, and w has no
\* whitespace at either end
TrimmedOf(w, t) ==
    /\ \E i, j \in 0..Len(t) :
          /\ i + j <= Len(t)
          /\ AllWhitespace(SubSeq(t, 1, i))
          /\ AllWhitespace(SubSeq(t, Len(t) - j + 1, Len(t)))
          /\ w = SubSeq(t, i + 1, Len(t) - j)
    /\ w # <<>> => w[1] \notin Whitespace /\ w[Len(w)] \notin Whitespace

\* C15: the content written is the data element's text without its leading
\* and trailing whitespace, every character between unchanged; trimming it
\* again changes nothing, and extracting the same response again writes the
\* same content.
C15_TrimOnlyEnds ==
    \A k \in 1..Len(written) :
        /\ TrimmedOf(written[k], yangdata)
        /\ Strip(written[k]) = written[k]
        /\ written[k] = written[1]

\* extracted twice from a text with whitespace in front, inside and behind
C15_Witness ==
    /\ Len(written) = 2
    /\ yangdata = <<"\n", "m", " ", "m", "\n">>
    /\ written[2] = <<"m", " ", "m">>

-----------------------------------------------------------------------------
(* C17 *)

\* C17: the message returned by the read that consumed an end marker holds
\* nothing of what followed that marker on the transport.  Stated for the
\* first read_command_output of a session whose hello ended with its marker:
\* what it returns is what the device's reply holds before its first marker.
C17_NothingAfterMarkerReturned ==
    (/\ InSession
     /\ Len(Reads) >= 2 /\ Reads[1].ok /\ Reads[2].ok
     /\ MarkerTerminated(devmsgs[1])
     /\ FirstMarker(devmsgs[2]) # 0) =>
        Reads[2].text = BeforeMarker(devmsgs[2])

-----------------------------------------------------------------------------
(* C18 *)

\* C18: no message returned by read_hello or read_command_output contains
\* the end marker.
C18_NoMarkerInReturned ==
    \A i \in Evs({"rd_hello", "rd_hello_exit", "rd"}) : ~Contains(log[i].text, Marker)

-----------------------------------------------------------------------------
(* C19 *)

\* the get-schema requests of the session, in the order written
SchemaRequests == SubSeq(sent, 3, Len(sent))

\* the request for one descriptor
RequestFor(state) == RpcHead \o state[1] \o RpcMid \o state[2] \o RpcTail

\* one request per descriptor, in the order of the list, none twice: the
\* k-th request is that of the k-th descriptor, and there are as many
\* requests as main's loop has reached descriptors
OnePerDescriptorInOrder ==
    /\ Cardinality(Evs({"wr_schema"})) = Len(SchemaRequests)
    /\ Len(SchemaRequests) <= Len(states)
    /\ \A k \in 1..Len(SchemaRequests) : SchemaRequests[k] = RequestFor(states[k])
    /\ pc = "read_schema" => Len(SchemaRequests) = idx
    /\ pc = "fetch" => Len(SchemaRequests) = idx - 1

\* after a read that failed (it returned without having seen the marker)
\* nothing more is written
NoRequestAfterFailedRead ==
    \A i \in Evs({"rd"}), j \in Requests : ~log[i].ok => j < i

\* C19: a session writes exactly one get-schema request per descriptor, in
\* the order of the list, never twice, and no request after a read, parse or
\* write failure.
C19_OneRequestPerDescriptor ==
    InSession => OnePerDescriptorInOrder /\ NoRequestAfterFailedRead

-----------------------------------------------------------------------------
(* C20 *)

\* C20: in line-wise mode, when the device has sent a response with its end
\* marker, read_command_output returns unless the transport is closed,
\* whether or not a line terminator follows the marker.
C20_LineResponseReturned ==
    (/\ pc \in Reading
     /\ newline_data[hostIdx] = "line"
     /\ MarkerSeen(data \o pipe \o wire)) ~> (pc \notin Reading \/ ~TransportUp)

====
